---- MODULE Spec2Model ----
(***************************************************************************)
(* Smart-farm IPC system: the server (controller main thread, alert        *)
(* thread, signal handler), its forked logger child, and the sensor,       *)
(* actuator and monitor processes, communicating through a System V        *)
(* message queue, a shared memory segment guarded by a System V semaphore, *)
(* and a pipe.                                                             *)
(*                                                                         *)
(* Temperatures and humidities are C floats; they are modelled as          *)
(* fixed-point integers in tenths (28.0 is 280).  Thresholds are C ints    *)
(* in whole units; a comparison promotes the int to the float scale.       *)
(***************************************************************************)
EXTENDS Integers, Sequences, FiniteSets, TLC

\* ------------------------------------------------------------------ bounds
MaxSends == 2      \* readings the sensor sends in one run
MaxMenu == 1       \* menu choices 1..3 the operator makes in one run
PipeCap == 1       \* LogMessages the pipe buffer holds before write blocks
MaxTime == 1       \* seconds the clock advances in one run

\* ------------------------------------------------------- program constants
Scale == 10                 \* fixed-point scale of a float
DefaultTempThreshold == 28  \* main_server.c:277
DefaultHumThreshold == 70   \* main_server.c:278
InitTemp == 250             \* main_server.c:282 (25.0)
InitHumidity == 500         \* main_server.c:283 (50.0)

\* --------------------------------------------------------------- input sets
\* <<temperature, humidity>> pairs the sensor can measure (tenths): a cold and
\* humid one (19.5 is below the low-temperature alert level, 80.5 above the
\* default humidity alert level), and one exactly at both default thresholds.
Readings == {<<195, 805>>, <<280, 700>>}
\* Thresholds the operator can type: with 22 the reading 28.0 exceeds the
\* high-temperature alert level 27, with 60 the reading 70.0 is exactly at
\* the humidity alert level.
NewTempThresh == {22}
NewHumThresh == {60}

Threads == {"main", "alert", "logger", "sensor", "actuator", "monitor"}
Clients == {"sensor", "actuator", "monitor"}
Procs == {"server", "logger"} \cup Clients

VARIABLES
    shm,            \* SharedData record (the segment's content)
    shmExists,      \* the segment id is valid (not yet IPC_RMID'ed)
    att,            \* processes that have the segment attached
    sem,            \* semaphore value
    semExists,      \* the semaphore set exists
    holder,         \* threads whose P succeeded and that have not done V
    msgq,           \* messages in the data queue
    msgqExists,
    pipe,           \* LogMessages in the pipe buffer
    pipeW,          \* the server's write end pipe_fd[1] is open
    pipeR,          \* the logger's read end pipe_fd[0] is open
    pc,             \* position of every thread
    status,         \* process status: "none","running","exit0","exit1","crashed","sigpipe"
    hdl,            \* server thread that runs signal_handler ("none" if none)
    hpc,            \* position inside cleanup_resources (server)
    lhpc,           \* position inside cleanup_resources (logger child)
    thread_running, \* main_server.c:44
    loc,            \* controller locals: sensor_msg, temp_thresh, hum_thresh, new_heater, new_fan
    sens,           \* sensor globals: heater_state, fan_state, loop_count parity
    actv,           \* actuator globals: the 5 values read_control_state copies
    logfile,        \* lines of smartfarm.log
    sent,           \* history: readings msgsnd accepted, in order
    processed,      \* history: readings the controller took from the queue, in order
    versions,       \* history: every 5-tuple a complete update left in shm
    bare,           \* the last step touched a SharedData field without holding the semaphore
    menuCount,      \* menu choices made so far
    stop,           \* history of the server's cleanup_resources: calls and releases made
    aloc,           \* alert thread locals of the current tick: temp, hum, temp_thresh, hum_thresh
    alerts,         \* alerts printed in the current tick
    written,        \* history: LogMessages write() put into the pipe, in order
    now             \* the value time(NULL) returns (seconds since the start)

vars == <<shm, shmExists, att, sem, semExists, holder, msgq, msgqExists, pipe,
          pipeW, pipeR, pc, status, hdl, hpc, lhpc, thread_running, loc, sens,
          actv, logfile, sent, processed, versions, bare, menuCount, stop,
          aloc, alerts, written, now>>

ipcVars == <<shmExists, att, semExists, msgqExists>>
ghostVars == <<sent, processed, versions>>
auxVars == <<stop, aloc, alerts, written>>

\* ------------------------------------------------------------ data helpers
\* A fresh System V segment is zero filled.
ZeroShm == [temp_threshold |-> 0, humidity_threshold |-> 0, heater_on |-> 0,
            fan_on |-> 0, led_on |-> 0, current_temp |-> 0,
            current_humidity |-> 0, system_running |-> 0]

\* main_server.c:277-284
InitShm == [temp_threshold |-> DefaultTempThreshold,
            humidity_threshold |-> DefaultHumThreshold, heater_on |-> 0,
            fan_on |-> 0, led_on |-> 1, current_temp |-> InitTemp,
            current_humidity |-> InitHumidity, system_running |-> 1]

Tuple5(s) == <<s.heater_on, s.fan_on, s.led_on, s.current_temp, s.current_humidity>>

NoMsg == [temperature |-> 0, humidity |-> 0, timestamp |-> 0]
NoLoc == [msg |-> NoMsg, temp_thresh |-> 0, hum_thresh |-> 0,
          new_heater |-> 0, new_fan |-> 0]

\* main_server.c:350  (sensor_msg.temperature < temp_thresh) ? 1 : 0
NewHeaterAtOrBelow(t, T) == IF t <= T * Scale THEN 1 ELSE 0
NewHeater(t, T) == IF t < T * Scale THEN 1 ELSE 0

\* main_server.c:351  (sensor_msg.humidity > hum_thresh) ? 1 : 0
NewFan(h, H) == IF h > H * Scale THEN 1 ELSE 0

\* cleanup_resources has not been called and has released nothing.
NoStop == [calls |-> 0, join |-> 0, pipe |-> 0, shmdt |-> 0, msgq |-> 0,
           shm |-> 0, sem |-> 0]

\* --------------------------------------------------------- semaphore helpers
\* common.h:99-104.  semop(-1) blocks while the value is 0; it returns -1 at
\* once when the set does not exist (EINVAL/EIDRM) and sem_lock only prints.
SemLockReturns == ~semExists \/ sem > 0

SemLock(t) ==
    /\ SemLockReturns
    /\ IF semExists /\ sem > 0
         THEN sem' = sem - 1 /\ holder' = holder \cup {t}
         ELSE UNCHANGED <<sem, holder>>

\* common.h:107-112
SemUnlock(t) ==
    /\ sem' = IF semExists THEN sem + 1 ELSE sem
    /\ holder' = holder \ {t}

\* A step of thread t that reads or writes a SharedData field.
Touch(t) == bare' = (t \notin holder)
NoTouch == bare' = FALSE

ProcOf(t) == IF t \in {"main", "alert"} THEN "server" ELSE t

Init ==
    /\ shm = ZeroShm
    /\ shmExists = FALSE
    /\ att = {}
    /\ sem = 0
    /\ semExists = FALSE
    /\ holder = {}
    /\ msgq = <<>>
    /\ msgqExists = FALSE
    /\ pipe = <<>>
    /\ pipeW = FALSE
    /\ pipeR = FALSE
    /\ pc = [t \in Threads |-> IF t = "main" THEN "s_create" ELSE "none"]
    /\ status = [p \in Procs |-> IF p = "server" THEN "running" ELSE "none"]
    /\ hdl = "none"
    /\ hpc = "none"
    /\ lhpc = "none"
    /\ thread_running = 1
    /\ loc = NoLoc
    /\ sens = [heater_state |-> 0, fan_state |-> 0, loop_count |-> 0]
    /\ actv = <<>>
    /\ logfile = <<>>
    /\ sent = <<>>
    /\ processed = <<>>
    /\ versions = {}
    /\ bare = FALSE
    /\ menuCount = 0
    /\ stop = NoStop
    /\ aloc = <<>>
    /\ alerts = {}
    /\ written = <<>>
    /\ now = 0

\* ------------------------------------------------------- process lifetime
Alive(p) == status[p] = "running"

\* The kernel closes a dead server's pipe write end and detaches its segment.
ServerDies(st) ==
    /\ status' = [status EXCEPT !["server"] = st]
    /\ pipeW' = FALSE
    /\ att' = att \ {"server"}

\* The kernel closes a dead logger's read end and detaches its segment.
LoggerDies(st) ==
    /\ status' = [status EXCEPT !["logger"] = st]
    /\ pipeR' = FALSE
    /\ att' = att \ {"logger"}

MainRuns == Alive("server") /\ hdl # "main"
AlertRuns == Alive("server") /\ hdl # "alert"
LoggerRuns == Alive("logger") /\ lhpc = "none"

Goto(t, l) == pc' = [pc EXCEPT ![t] = l]

\* ------------------------------------------------- server: main(), startup
\* main_server.c:243-268  msgget, shmget, semget, shmat (all succeed)
S_Create ==
    /\ MainRuns /\ pc["main"] = "s_create"
    /\ msgqExists' = TRUE /\ msgq' = <<>>
    /\ shmExists' = TRUE /\ shm' = ZeroShm
    /\ semExists' = TRUE /\ sem' = 0
    /\ att' = att \cup {"server"}
    /\ Goto("main", "s_setval")
    /\ NoTouch
    /\ UNCHANGED <<auxVars, holder, pipe, pipeW, pipeR, status, hdl, hpc, lhpc,
                   thread_running, loc, sens, actv, logfile, ghostVars, menuCount, now>>

\* main_server.c:243-268  one of msgget, shmget, semget, shmat returns -1:
\* perror and exit(1); the objects created before the failing call stay.
StartupCalls == <<"msgget", "shmget", "semget", "shmat">>
S_CreateFail(k) ==
    /\ MainRuns /\ pc["main"] = "s_create"
    /\ msgqExists' = (k > 1) /\ msgq' = <<>>
    /\ shmExists' = (k > 2) /\ shm' = ZeroShm
    /\ semExists' = (k > 3) /\ sem' = 0
    /\ ServerDies("exit1")
    /\ NoTouch
    /\ UNCHANGED <<auxVars, holder, pipe, pipeR, pc, hdl, hpc, lhpc,
                   thread_running, loc, sens, actv, logfile, ghostVars, menuCount, now>>

\* main_server.c:271-273  semctl(SETVAL, 1)
S_SetVal ==
    /\ MainRuns /\ pc["main"] = "s_setval"
    /\ sem' = IF semExists THEN 1 ELSE sem
    /\ Goto("main", "s_init_lock")
    /\ NoTouch
    /\ UNCHANGED <<auxVars, shm, ipcVars, holder, msgq, pipe, pipeW, pipeR, status, hdl,
                   hpc, lhpc, thread_running, loc, sens, actv, logfile,
                   ghostVars, menuCount, now>>

\* main_server.c:276
S_InitLock ==
    /\ MainRuns /\ pc["main"] = "s_init_lock"
    /\ SemLock("main")
    /\ Goto("main", "s_init_cs")
    /\ NoTouch
    /\ UNCHANGED <<auxVars, shm, ipcVars, msgq, pipe, pipeW, pipeR, status, hdl, hpc,
                   lhpc, thread_running, loc, sens, actv, logfile, ghostVars,
                   menuCount, now>>

\* main_server.c:277-285
S_InitCS ==
    /\ MainRuns /\ pc["main"] = "s_init_cs" /\ "server" \in att
    /\ shm' = InitShm
    /\ Touch("main")
    /\ SemUnlock("main")
    /\ versions' = versions \cup {Tuple5(InitShm)}
    /\ Goto("main", "s_print")
    /\ UNCHANGED <<auxVars, ipcVars, msgq, pipe, pipeW, pipeR, status, hdl, hpc, lhpc,
                   thread_running, loc, sens, actv, logfile, sent, processed,
                   menuCount, now>>

\* main_server.c:287-288  printf of both thresholds, after sem_unlock
S_Print ==
    /\ MainRuns /\ pc["main"] = "s_print" /\ "server" \in att
    /\ Touch("main")
    /\ Goto("main", "s_fork")
    /\ UNCHANGED <<auxVars, shm, ipcVars, sem, holder, msgq, pipe, pipeW, pipeR, status,
                   hdl, hpc, lhpc, thread_running, loc, sens, actv, logfile,
                   ghostVars, menuCount, now>>

\* main_server.c:295-313  pipe, fork, parent closes the read end.  The child
\* inherits the attachment and the signal dispositions.
S_Fork ==
    /\ MainRuns /\ pc["main"] = "s_fork"
    /\ pipe' = <<>> /\ pipeW' = TRUE /\ pipeR' = TRUE
    /\ status' = [status EXCEPT !["logger"] = "running"]
    /\ att' = IF "server" \in att THEN att \cup {"logger"} ELSE att
    /\ pc' = [pc EXCEPT !["main"] = "s_thread", !["logger"] = "l_start"]
    /\ NoTouch
    /\ UNCHANGED <<auxVars, shm, shmExists, semExists, msgqExists, sem, holder, msgq,
                   hdl, hpc, lhpc, thread_running, loc, sens, actv, logfile,
                   ghostVars, menuCount, now>>

\* main_server.c:320  pthread_create
S_Thread ==
    /\ MainRuns /\ pc["main"] = "s_thread"
    /\ pc' = [pc EXCEPT !["main"] = "poll", !["alert"] = "a_check"]
    /\ NoTouch
    /\ UNCHANGED <<auxVars, shm, ipcVars, sem, holder, msgq, pipe, pipeW, pipeR, status,
                   hdl, hpc, lhpc, thread_running, loc, sens, actv, logfile,
                   ghostVars, menuCount, now>>

\* ------------------------------------------- server: main(), control loop
\* main_server.c:335-337  msgrcv(..., IPC_NOWAIT): returns at once; -1 when
\* the queue is empty (ENOMSG) or removed (EINVAL).
MsgrcvReturnsBlocking == msgqExists /\ msgq # <<>>
MsgrcvReturns == TRUE

\* The message msgrcv takes for type MSG_TYPE_SENSOR_DATA: the oldest one.
MsgrcvIndexNewest(q) == Len(q)
MsgrcvIndex(q) == 1

Without(q, i) == [j \in 1..(Len(q) - 1) |-> IF j < i THEN q[j] ELSE q[j + 1]]

\* main_server.c:339, 376  if (result != -1) { ... } sleep(1): with nothing
\* received the body is skipped.
AfterEmptyPollProcess == "c_lock1"
AfterEmptyPoll == "sleep"

\* main_server.c:339  the only test of the result is (result != -1); errno is
\* never read, so no msgrcv error ends the process.
MsgrcvErrorExitsOnRemoved == ~msgqExists
MsgrcvErrorExits == FALSE

\* main_server.c:335-339 and 376
C_Poll ==
    /\ MainRuns /\ pc["main"] = "poll"
    /\ MsgrcvReturns
    /\ IF msgqExists /\ msgq # <<>>
         THEN /\ loc' = [loc EXCEPT !.msg = msgq[MsgrcvIndex(msgq)]]
              /\ msgq' = Without(msgq, MsgrcvIndex(msgq))
              /\ processed' = Append(processed, msgq[MsgrcvIndex(msgq)])
              /\ Goto("main", "c_lock1")
              /\ UNCHANGED <<status, pipeW, att>>
         ELSE IF MsgrcvErrorExits
                THEN /\ ServerDies("exit1")
                     /\ UNCHANGED <<loc, msgq, processed, pc>>
                ELSE /\ UNCHANGED <<loc, msgq, processed, status, pipeW, att>>
                     /\ Goto("main", AfterEmptyPoll)
    /\ NoTouch
    /\ UNCHANGED <<auxVars, shm, shmExists, semExists, msgqExists, sem, holder,
                   pipe, pipeR, hdl, hpc, lhpc, thread_running, sens, actv,
                   logfile, sent, versions, menuCount, now>>

\* main_server.c:341
C_Lock1 ==
    /\ MainRuns /\ pc["main"] = "c_lock1"
    /\ SemLock("main")
    /\ Goto("main", "c_read")
    /\ NoTouch
    /\ UNCHANGED <<auxVars, shm, ipcVars, msgq, pipe, pipeW, pipeR, status, hdl, hpc,
                   lhpc, thread_running, loc, sens, actv, logfile, ghostVars,
                   menuCount, now>>

\* main_server.c:342-351  read both thresholds, unlock, decide
C_Read ==
    /\ MainRuns /\ pc["main"] = "c_read" /\ "server" \in att
    /\ loc' = [loc EXCEPT
                 !.temp_thresh = shm.temp_threshold,
                 !.hum_thresh = shm.humidity_threshold,
                 !.new_heater = NewHeater(loc.msg.temperature, shm.temp_threshold),
                 !.new_fan = NewFan(loc.msg.humidity, shm.humidity_threshold)]
    /\ Touch("main")
    /\ SemUnlock("main")
    /\ Goto("main", "c_lock2")
    /\ UNCHANGED <<auxVars, shm, ipcVars, msgq, pipe, pipeW, pipeR, status, hdl, hpc,
                   lhpc, thread_running, sens, actv, logfile, ghostVars,
                   menuCount, now>>

\* main_server.c:354
C_Lock2 ==
    /\ MainRuns /\ pc["main"] = "c_lock2"
    /\ SemLock("main")
    /\ Goto("main", "c_write1")
    /\ NoTouch
    /\ UNCHANGED <<auxVars, shm, ipcVars, msgq, pipe, pipeW, pipeR, status, hdl, hpc,
                   lhpc, thread_running, loc, sens, actv, logfile, ghostVars,
                   menuCount, now>>

\* main_server.c:357  shared_data->led_on = 1
LedFollowsHeater == loc.new_heater
LedOn == 1

\* main_server.c:355-357
C_Write1 ==
    /\ MainRuns /\ pc["main"] = "c_write1" /\ "server" \in att
    /\ shm' = [shm EXCEPT !.heater_on = loc.new_heater,
                          !.fan_on = loc.new_fan,
                          !.led_on = LedOn]
    /\ Touch("main")
    /\ Goto("main", "c_write2")
    /\ UNCHANGED <<auxVars, ipcVars, sem, holder, msgq, pipe, pipeW, pipeR, status, hdl,
                   hpc, lhpc, thread_running, loc, sens, actv, logfile,
                   ghostVars, menuCount, now>>

\* main_server.c:358-360
C_Write2 ==
    /\ MainRuns /\ pc["main"] = "c_write2" /\ "server" \in att
    /\ shm' = [shm EXCEPT !.current_temp = loc.msg.temperature,
                          !.current_humidity = loc.msg.humidity]
    /\ Touch("main")
    /\ SemUnlock("main")
    /\ versions' = versions \cup {<<loc.new_heater, loc.new_fan, 1,
                                    loc.msg.temperature, loc.msg.humidity>>}
    /\ Goto("main", "c_log")
    /\ UNCHANGED <<auxVars, ipcVars, msgq, pipe, pipeW, pipeR, status, hdl, hpc, lhpc,
                   thread_running, loc, sens, actv, logfile, sent, processed,
                   menuCount, now>>

\* main_server.c:367-372  log_msg.timestamp = time(NULL)
LogMessage == [temperature |-> loc.msg.temperature, humidity |-> loc.msg.humidity,
               heater_on |-> loc.new_heater, fan_on |-> loc.new_fan,
               timestamp |-> now]

\* main_server.c:373  write() on a blocking pipe: returns once the buffer has
\* room, or at once with -1 when the descriptor is closed (EBADF).
PipeWriteReturns == ~pipeW \/ ~pipeR \/ Len(pipe) < PipeCap

\* main_server.c:366-374.  With no reader left the write raises SIGPIPE,
\* whose default action kills the server.  The locals of the loop body
\* (sensor_msg, temp_thresh, ...) end their lifetime with the iteration.
C_Log ==
    /\ MainRuns /\ pc["main"] = "c_log"
    /\ PipeWriteReturns
    /\ NoTouch
    /\ IF pipeW /\ ~pipeR
         THEN /\ ServerDies("sigpipe")
              /\ UNCHANGED <<pipe, pc, pipeR, loc, written>>
         ELSE /\ IF pipeW /\ Len(pipe) < PipeCap
                   THEN /\ pipe' = Append(pipe, LogMessage)
                        /\ written' = Append(written, LogMessage)
                   ELSE UNCHANGED <<pipe, written>>
              /\ Goto("main", "sleep")
              /\ loc' = NoLoc
              /\ UNCHANGED <<status, pipeW, pipeR, att>>
    /\ UNCHANGED <<stop, aloc, alerts, shm, shmExists, semExists, msgqExists,
                   sem, holder, msgq, hdl, hpc, lhpc, thread_running, sens,
                   actv, logfile, ghostVars, menuCount, now>>

\* main_server.c:376
C_Sleep ==
    /\ MainRuns /\ pc["main"] = "sleep"
    /\ Goto("main", "poll")
    /\ NoTouch
    /\ UNCHANGED <<auxVars, shm, ipcVars, sem, holder, msgq, pipe, pipeW, pipeR, status,
                   hdl, hpc, lhpc, thread_running, loc, sens, actv, logfile,
                   ghostVars, menuCount, now>>

\* A server thread dereferences shared_data after cleanup_resources has
\* detached the segment (main_server.c:177): SIGSEGV kills the process.
S_Segv ==
    /\ Alive("server") /\ "server" \notin att
    /\ \/ hdl # "main" /\ pc["main"] \in {"c_read", "c_write1", "c_write2"}
       \/ hdl # "alert" /\ pc["alert"] = "a_cs"
    /\ ServerDies("crashed")
    /\ NoTouch
    /\ UNCHANGED <<auxVars, shm, shmExists, semExists, msgqExists, sem, holder, msgq,
                   pipe, pipeR, pc, hdl, hpc, lhpc, thread_running, loc, sens,
                   actv, logfile, ghostVars, menuCount, now>>

\* ------------------------------------------ server: alert_thread_func
\* main_server.c:124  temp > temp_thresh + 5
HighTemp(temp, T) == temp > (T + 5) * Scale

\* main_server.c:127  temp < 20.0
LowTemp(temp) == temp < 20 * Scale

\* main_server.c:130  hum > hum_thresh + 10
HighHumAtOrAbove(hum, H) == hum >= (H + 10) * Scale
HighHum(hum, H) == hum > (H + 10) * Scale

\* main_server.c:115  while (thread_running); the locals of the loop body
\* begin a new lifetime with every iteration.
A_Check ==
    /\ AlertRuns /\ pc["alert"] = "a_check"
    /\ Goto("alert", IF thread_running = 1 THEN "a_lock" ELSE "done")
    /\ aloc' = <<>>
    /\ alerts' = {}
    /\ NoTouch
    /\ UNCHANGED <<stop, written, shm, ipcVars, sem, holder, msgq, pipe, pipeW,
                   pipeR, status, hdl, hpc, lhpc, thread_running, loc, sens,
                   actv, logfile, ghostVars, menuCount, now>>

\* main_server.c:116
A_Lock ==
    /\ AlertRuns /\ pc["alert"] = "a_lock"
    /\ SemLock("alert")
    /\ Goto("alert", "a_cs")
    /\ NoTouch
    /\ UNCHANGED <<auxVars, shm, ipcVars, msgq, pipe, pipeW, pipeR, status, hdl,
                   hpc, lhpc, thread_running, loc, sens, actv, logfile,
                   ghostVars, menuCount, now>>

\* main_server.c:117-121  read four fields, unlock
A_CS ==
    /\ AlertRuns /\ pc["alert"] = "a_cs" /\ "server" \in att
    /\ aloc' = [temp |-> shm.current_temp, hum |-> shm.current_humidity,
                temp_thresh |-> shm.temp_threshold,
                hum_thresh |-> shm.humidity_threshold]
    /\ Touch("alert")
    /\ SemUnlock("alert")
    /\ Goto("alert", "a_alert")
    /\ UNCHANGED <<stop, alerts, written, shm, ipcVars, msgq, pipe, pipeW,
                   pipeR, status, hdl, hpc, lhpc, thread_running, loc, sens,
                   actv, logfile, ghostVars, menuCount, now>>

\* main_server.c:124-134  three independent tests, one printf each, sleep(3)
A_Alert ==
    /\ AlertRuns /\ pc["alert"] = "a_alert"
    /\ alerts' = (IF HighTemp(aloc.temp, aloc.temp_thresh)
                    THEN {"high_temp"} ELSE {})
                 \cup (IF LowTemp(aloc.temp) THEN {"low_temp"} ELSE {})
                 \cup (IF HighHum(aloc.hum, aloc.hum_thresh)
                         THEN {"high_humidity"} ELSE {})
    /\ Goto("alert", "a_check")
    /\ NoTouch
    /\ UNCHANGED <<stop, aloc, written, shm, ipcVars, sem, holder, msgq, pipe,
                   pipeW, pipeR, status, hdl, hpc, lhpc, thread_running, loc,
                   sens, actv, logfile, ghostVars, menuCount, now>>

AlertNext == A_Check \/ A_Lock \/ A_CS \/ A_Alert

\* ------------------------- server: signal_handler and cleanup_resources
HandlerRuns == Alive("server") /\ hdl # "none"

\* main_server.c:33-40  the identifiers and pipe_fd[1] are -1, shared_data is
\* NULL until main has created the objects; cleanup_resources never resets
\* them.
IpcMade == pc["main"] # "s_create"
PipeMade == pc["main"] \notin {"s_create", "s_setval", "s_init_lock",
                               "s_init_cs", "s_print", "s_fork"}
AlertLive == pc["alert"] \notin {"none", "done"}

\* main_server.c:201-203.  SIGINT or SIGTERM sent to the server process is
\* delivered to any one of its threads; that thread is suspended where it is
\* and runs signal_handler, which never returns.
SigServer(t) ==
    /\ Alive("server") /\ hdl = "none"
    /\ t = "main" \/ (t = "alert" /\ AlertLive)
    /\ hdl' = t
    /\ hpc' = "h_start"
    /\ stop' = [stop EXCEPT !.calls = 1]
    /\ NoTouch
    /\ UNCHANGED <<aloc, alerts, written, shm, ipcVars, sem, holder, msgq, pipe, pipeW, pipeR, pc,
                   status, lhpc, thread_running, loc, sens, actv, logfile,
                   ghostVars, menuCount, now>>

\* main_server.c:235-236.  Both SIGINT and SIGTERM run signal_handler; while
\* the handler of one runs, the other is not blocked: delivered to the same
\* thread it suspends the first call of cleanup_resources where it is and
\* starts a second one, which ends in exit(0).
SigNested ==
    /\ HandlerRuns /\ stop.calls = 1
    /\ hpc \notin {"h_start", "h_hung"}
    /\ hpc' = "h_start"
    /\ stop' = [stop EXCEPT !.calls = 2]
    /\ NoTouch
    /\ UNCHANGED <<shm, ipcVars, sem, holder, msgq, pipe, pipeW, pipeR, pc,
                   status, hdl, lhpc, thread_running, loc, sens, actv, logfile,
                   ghostVars, menuCount, aloc, alerts, written, now>>

\* main_server.c:149
H_Start ==
    /\ HandlerRuns /\ hpc = "h_start"
    /\ thread_running' = 0
    /\ hpc' = "h_join"
    /\ NoTouch
    /\ UNCHANGED <<auxVars, shm, ipcVars, sem, holder, msgq, pipe, pipeW, pipeR, pc,
                   status, hdl, lhpc, loc, sens, actv, logfile, ghostVars,
                   menuCount, now>>

\* main_server.c:150  pthread_join(alert_thread, NULL).  Joining a thread id
\* that was never created or was joined before, or the calling thread
\* itself, is undefined: the call returns an error, or it faults (never
\* created, joined before), or it never returns (self); otherwise it returns
\* when the alert thread has returned.
H_Join ==
    /\ HandlerRuns /\ hpc = "h_join"
    /\ NoTouch
    /\ \/ /\ pc["alert"] = "done" \/ pc["alert"] = "none" \/ hdl = "alert"
          /\ hpc' = "h_flag"
          /\ stop' = [stop EXCEPT !.join = @ + 1]
          /\ UNCHANGED <<status, pipeW, att>>
       \/ /\ pc["alert"] = "none" \/ stop.join > 0
          /\ ServerDies("crashed")
          /\ UNCHANGED <<hpc, stop>>
       \/ /\ hdl = "alert"
          /\ hpc' = "h_hung"
          /\ UNCHANGED <<status, pipeW, att, stop>>
    /\ UNCHANGED <<aloc, alerts, written, shm, shmExists, semExists, msgqExists, sem, holder, msgq,
                   pipe, pipeR, pc, hdl, lhpc, thread_running, loc, sens, actv,
                   logfile, ghostVars, menuCount, now>>

\* main_server.c:154-155  if (shared_data != NULL) sem_lock
H_Flag ==
    /\ HandlerRuns /\ hpc = "h_flag"
    /\ NoTouch
    /\ IF ~IpcMade
         THEN hpc' = "h_close" /\ UNCHANGED <<sem, holder>>
         ELSE hpc' = "h_cs" /\ SemLock(hdl)
    /\ UNCHANGED <<auxVars, shm, ipcVars, msgq, pipe, pipeW, pipeR, pc, status, hdl,
                   lhpc, thread_running, loc, sens, actv, logfile, ghostVars,
                   menuCount, now>>

\* main_server.c:156-159
H_CS ==
    /\ HandlerRuns /\ hpc = "h_cs" /\ "server" \in att
    /\ shm' = [shm EXCEPT !.system_running = 0]
    /\ Touch(hdl)
    /\ SemUnlock(hdl)
    /\ hpc' = "h_close"
    /\ UNCHANGED <<auxVars, ipcVars, msgq, pipe, pipeW, pipeR, pc, status, hdl, lhpc,
                   thread_running, loc, sens, actv, logfile, ghostVars,
                   menuCount, now>>

\* main_server.c:163-166  if (pipe_fd[1] != -1) close(pipe_fd[1])
H_Close ==
    /\ HandlerRuns /\ hpc = "h_close"
    /\ pipeW' = FALSE
    /\ stop' = IF PipeMade THEN [stop EXCEPT !.pipe = @ + 1] ELSE stop
    /\ hpc' = "h_wait"
    /\ NoTouch
    /\ UNCHANGED <<aloc, alerts, written, shm, ipcVars, sem, holder, msgq, pipe, pipeR, pc, status,
                   hdl, lhpc, thread_running, loc, sens, actv, logfile,
                   ghostVars, menuCount, now>>

\* main_server.c:169-173  if (logger_pid > 0) waitpid(logger_pid)
H_Wait ==
    /\ HandlerRuns /\ hpc = "h_wait"
    /\ ~Alive("logger")
    /\ hpc' = "h_shmdt"
    /\ NoTouch
    /\ UNCHANGED <<auxVars, shm, ipcVars, sem, holder, msgq, pipe, pipeW, pipeR, pc,
                   status, hdl, lhpc, thread_running, loc, sens, actv, logfile,
                   ghostVars, menuCount, now>>

\* main_server.c:176-178
H_Shmdt ==
    /\ HandlerRuns /\ hpc = "h_shmdt"
    /\ att' = att \ {"server"}
    /\ stop' = IF IpcMade THEN [stop EXCEPT !.shmdt = @ + 1] ELSE stop
    /\ hpc' = "h_rmq"
    /\ NoTouch
    /\ UNCHANGED <<aloc, alerts, written, shm, shmExists, semExists, msgqExists, sem, holder, msgq,
                   pipe, pipeW, pipeR, pc, status, hdl, lhpc, thread_running,
                   loc, sens, actv, logfile, ghostVars, menuCount, now>>

\* main_server.c:181-184  msgctl(IPC_RMID): queued messages are discarded
H_RmQ ==
    /\ HandlerRuns /\ hpc = "h_rmq"
    /\ msgqExists' = FALSE
    /\ msgq' = <<>>
    /\ stop' = IF IpcMade THEN [stop EXCEPT !.msgq = @ + 1] ELSE stop
    /\ hpc' = "h_rmshm"
    /\ NoTouch
    /\ UNCHANGED <<aloc, alerts, written, shm, shmExists, att, semExists, sem, holder, pipe, pipeW,
                   pipeR, pc, status, hdl, lhpc, thread_running, loc, sens,
                   actv, logfile, ghostVars, menuCount, now>>

\* main_server.c:185-188
H_RmShm ==
    /\ HandlerRuns /\ hpc = "h_rmshm"
    /\ shmExists' = FALSE
    /\ stop' = IF IpcMade THEN [stop EXCEPT !.shm = @ + 1] ELSE stop
    /\ hpc' = "h_rmsem"
    /\ NoTouch
    /\ UNCHANGED <<aloc, alerts, written, shm, att, semExists, msgqExists, sem, holder, msgq, pipe,
                   pipeW, pipeR, pc, status, hdl, lhpc, thread_running, loc,
                   sens, actv, logfile, ghostVars, menuCount, now>>

\* main_server.c:189-192
H_RmSem ==
    /\ HandlerRuns /\ hpc = "h_rmsem"
    /\ semExists' = FALSE
    /\ stop' = IF IpcMade THEN [stop EXCEPT !.sem = @ + 1] ELSE stop
    /\ hpc' = "h_exit"
    /\ NoTouch
    /\ UNCHANGED <<aloc, alerts, written, shm, shmExists, att, msgqExists, sem, holder, msgq, pipe,
                   pipeW, pipeR, pc, status, hdl, lhpc, thread_running, loc,
                   sens, actv, logfile, ghostVars, menuCount, now>>

\* main_server.c:204  exit(0)
H_Exit ==
    /\ HandlerRuns /\ hpc = "h_exit"
    /\ ServerDies("exit0")
    /\ NoTouch
    /\ UNCHANGED <<auxVars, shm, shmExists, semExists, msgqExists, sem, holder, msgq,
                   pipe, pipeR, pc, hdl, hpc, lhpc, thread_running, loc, sens,
                   actv, logfile, ghostVars, menuCount, now>>

HandlerNext == H_Start \/ H_Join \/ H_Flag \/ H_CS \/ H_Close \/ H_Wait
               \/ H_Shmdt \/ H_RmQ \/ H_RmShm \/ H_RmSem \/ H_Exit

\* -------------------------------------------------- logger_process (child)
\* main_server.c:67-82  close the write end, fopen("smartfarm.log", "a"),
\* write the session-start header
L_Start ==
    /\ LoggerRuns /\ pc["logger"] = "l_start"
    /\ NoTouch
    /\ logfile' = Append(logfile, [kind |-> "start"])
    /\ Goto("logger", "l_read")
    /\ UNCHANGED <<auxVars, shm, ipcVars, sem, holder, msgq, pipe, pipeW, pipeR, status,
                   hdl, hpc, lhpc, thread_running, loc, sens, actv, ghostVars,
                   menuCount, now>>

\* main_server.c:70-74  fopen fails: exit(1)
L_OpenFail ==
    /\ LoggerRuns /\ pc["logger"] = "l_start"
    /\ NoTouch
    /\ LoggerDies("exit1")
    /\ Goto("logger", "done")
    /\ UNCHANGED <<auxVars, shm, shmExists, semExists, msgqExists, sem, holder, msgq,
                   pipe, pipeW, hdl, hpc, lhpc, thread_running, loc, sens,
                   actv, logfile, ghostVars, menuCount, now>>

\* main_server.c:88-93  the line fprintf writes for one LogMessage: both
\* floats with two decimals, the flags as ON or OFF.
LogLineWholeDegrees(m) ==
    [kind |-> "record", timestamp |-> m.timestamp,
     temperature |-> (m.temperature \div Scale) * Scale,
     humidity |-> (m.humidity \div Scale) * Scale,
     heater |-> IF m.heater_on # 0 THEN "ON" ELSE "OFF",
     fan |-> IF m.fan_on # 0 THEN "ON" ELSE "OFF"]
LogLine(m) ==
    [kind |-> "record", timestamp |-> m.timestamp,
     temperature |-> m.temperature, humidity |-> m.humidity,
     heater |-> IF m.heater_on # 0 THEN "ON" ELSE "OFF",
     fan |-> IF m.fan_on # 0 THEN "ON" ELSE "OFF"]

\* main_server.c:86-95  read() blocks on an empty pipe while a write end is
\* open; one line is appended and flushed per LogMessage.
L_Read ==
    /\ LoggerRuns /\ pc["logger"] = "l_read"
    /\ pipe # <<>>
    /\ logfile' = Append(logfile, LogLine(Head(pipe)))
    /\ pipe' = Tail(pipe)
    /\ NoTouch
    /\ UNCHANGED <<auxVars, shm, ipcVars, sem, holder, msgq, pipeW, pipeR, pc, status,
                   hdl, hpc, lhpc, thread_running, loc, sens, actv, ghostVars,
                   menuCount, now>>

\* main_server.c:86, 97-103  read() returns 0 at end of file: session-end
\* marker, fclose, exit(0)
L_End ==
    /\ LoggerRuns /\ pc["logger"] = "l_read"
    /\ pipe = <<>> /\ ~pipeW
    /\ logfile' = Append(logfile, [kind |-> "end"])
    /\ LoggerDies("exit0")
    /\ Goto("logger", "done")
    /\ NoTouch
    /\ UNCHANGED <<auxVars, shm, shmExists, semExists, msgqExists, sem, holder, msgq,
                   pipe, pipeW, hdl, hpc, lhpc, thread_running, loc, sens,
                   actv, ghostVars, menuCount, now>>

\* main_server.c:235-236, 301.  The child is forked after signal() and keeps
\* signal_handler: a signal sent to the child, or to the process group,
\* makes the child run cleanup_resources on its copy of the globals
\* (alert_thread never created, logger_pid = 0, pipe_fd[1] as inherited).
SigLogger ==
    /\ LoggerRuns
    /\ lhpc' = "lh_join"
    /\ NoTouch
    /\ UNCHANGED <<auxVars, shm, ipcVars, sem, holder, msgq, pipe, pipeW, pipeR, pc,
                   status, hdl, hpc, thread_running, loc, sens, actv, logfile,
                   ghostVars, menuCount, now>>

LoggerHandlerRuns == Alive("logger") /\ lhpc # "none"

\* main_server.c:235-236, 301, 329.  A termination signal sent to the
\* server's process group (Ctrl+C on its terminal, kill of the group): the
\* server and, when it has been forked, the logger child each run
\* signal_handler.
SigGroup(t) ==
    /\ Alive("server") /\ hdl = "none"
    /\ t = "main" \/ (t = "alert" /\ AlertLive)
    /\ hdl' = t
    /\ hpc' = "h_start"
    /\ stop' = [stop EXCEPT !.calls = 1]
    /\ lhpc' = IF LoggerRuns THEN "lh_join" ELSE lhpc
    /\ NoTouch
    /\ UNCHANGED <<shm, ipcVars, sem, holder, msgq, pipe, pipeW, pipeR, pc,
                   status, thread_running, loc, sens, actv, logfile,
                   ghostVars, menuCount, aloc, alerts, written, now>>

\* main_server.c:149-150 in the child: pthread_join of a thread id that was
\* never created is undefined; it faults or returns an error.
LH_Join ==
    /\ LoggerHandlerRuns /\ lhpc = "lh_join"
    /\ NoTouch
    /\ \/ /\ lhpc' = "lh_lock"
          /\ UNCHANGED <<status, pipeR, att>>
       \/ /\ LoggerDies("crashed")
          /\ UNCHANGED lhpc
    /\ UNCHANGED <<auxVars, shm, shmExists, semExists, msgqExists, sem, holder, msgq,
                   pipe, pipeW, pc, hdl, hpc, thread_running, loc, sens, actv,
                   logfile, ghostVars, menuCount, now>>

\* main_server.c:155 in the child
LH_Lock ==
    /\ LoggerHandlerRuns /\ lhpc = "lh_lock"
    /\ SemLock("logger")
    /\ lhpc' = "lh_cs"
    /\ NoTouch
    /\ UNCHANGED <<auxVars, shm, ipcVars, msgq, pipe, pipeW, pipeR, pc, status, hdl,
                   hpc, thread_running, loc, sens, actv, logfile, ghostVars,
                   menuCount, now>>

\* main_server.c:156-178 in the child: system_running = 0, unlock, close of
\* the already closed write end, no waitpid (logger_pid = 0), shmdt
LH_CS ==
    /\ LoggerHandlerRuns /\ lhpc = "lh_cs"
    /\ shm' = [shm EXCEPT !.system_running = 0]
    /\ Touch("logger")
    /\ SemUnlock("logger")
    /\ att' = att \ {"logger"}
    /\ lhpc' = "lh_rm"
    /\ UNCHANGED <<auxVars, shmExists, semExists, msgqExists, msgq, pipe, pipeW, pipeR,
                   pc, status, hdl, hpc, thread_running, loc, sens, actv,
                   logfile, ghostVars, menuCount, now>>

\* main_server.c:181-188 in the child: msgctl and shmctl IPC_RMID
LH_Rm ==
    /\ LoggerHandlerRuns /\ lhpc = "lh_rm"
    /\ msgqExists' = FALSE /\ msgq' = <<>>
    /\ shmExists' = FALSE
    /\ lhpc' = "lh_rmsem"
    /\ NoTouch
    /\ UNCHANGED <<auxVars, shm, att, semExists, sem, holder, pipe, pipeW, pipeR, pc,
                   status, hdl, hpc, thread_running, loc, sens, actv, logfile,
                   ghostVars, menuCount, now>>

\* main_server.c:189-192, 204 in the child: semctl IPC_RMID, exit(0)
LH_RmSemExit ==
    /\ LoggerHandlerRuns /\ lhpc = "lh_rmsem"
    /\ semExists' = FALSE
    /\ LoggerDies("exit0")
    /\ lhpc' = "lh_done"
    /\ NoTouch
    /\ UNCHANGED <<auxVars, shm, shmExists, msgqExists, sem, holder, msgq, pipe, pipeW,
                   pc, hdl, hpc, thread_running, loc, sens, actv, logfile,
                   ghostVars, menuCount, now>>

LoggerNext == L_Start \/ L_OpenFail \/ L_Read \/ L_End \/ SigLogger \/ LH_Join \/ LH_Lock
              \/ LH_CS \/ LH_Rm \/ LH_RmSemExit

\* --------------------------------------------------------- client processes
\* main_sensor.c:167-204, main_actuator.c:126-152, main_monitor.c:46-61
\* A client attaches to the objects the server created, or exits with 1.
NeedsNoSem(p) == IF p = "sensor" THEN msgqExists /\ shmExists
                                 ELSE shmExists
Needs(p) == IF p = "sensor" THEN msgqExists /\ shmExists /\ semExists
                            ELSE shmExists /\ semExists
FirstPc(p) == IF p = "monitor" THEN "menu" ELSE "k_lock"

ClientStart(p) ==
    /\ status[p] = "none"
    /\ NoTouch
    /\ IF Needs(p)
         THEN /\ status' = [status EXCEPT ![p] = "running"]
              /\ att' = att \cup {p}
              /\ Goto(p, FirstPc(p))
         ELSE /\ status' = [status EXCEPT ![p] = "exit1"]
              /\ Goto(p, "done")
              /\ UNCHANGED att
    /\ UNCHANGED <<auxVars, shm, shmExists, semExists, msgqExists, sem, holder, msgq,
                   pipe, pipeW, pipeR, hdl, hpc, lhpc, thread_running, loc,
                   sens, actv, logfile, ghostVars, menuCount, now>>

\* main_sensor.c:47-54, main_actuator.c:50-57, main_monitor.c:22-28
\* cleanup_and_exit: shmdt, exit(0); the semaphore is not touched.
cleanup_and_exit(p) ==
    /\ status' = [status EXCEPT ![p] = "exit0"]
    /\ att' = att \ {p}
    /\ Goto(p, "done")

\* SIGINT or SIGTERM delivered to a client at any point of its execution.
SigClient(p) ==
    /\ Alive(p)
    /\ cleanup_and_exit(p)
    /\ NoTouch
    /\ UNCHANGED <<auxVars, shm, shmExists, semExists, msgqExists, sem, holder, msgq,
                   pipe, pipeW, pipeR, hdl, hpc, lhpc, thread_running, loc,
                   sens, actv, logfile, ghostVars, menuCount, now>>

\* main_sensor.c:212, main_actuator.c:159  sem_lock before the run-flag poll
K_Lock(p) ==
    /\ Alive(p) /\ pc[p] = "k_lock"
    /\ SemLock(p)
    /\ Goto(p, "k_cs")
    /\ NoTouch
    /\ UNCHANGED <<auxVars, shm, ipcVars, msgq, pipe, pipeW, pipeR, status, hdl, hpc,
                   lhpc, thread_running, loc, sens, actv, logfile, ghostVars,
                   menuCount, now>>

\* main_sensor.c:213-218, main_actuator.c:160-166  read system_running,
\* unlock, leave the loop (return 0) when it is 0
K_CS(p) ==
    /\ Alive(p) /\ pc[p] = "k_cs"
    /\ Touch(p)
    /\ SemUnlock(p)
    /\ IF shm.system_running = 0
         THEN /\ status' = [status EXCEPT ![p] = "exit0"]
              /\ att' = att \ {p}
              /\ Goto(p, "done")
         ELSE /\ Goto(p, "r_lock")
              /\ UNCHANGED <<status, att>>
    /\ UNCHANGED <<auxVars, shm, shmExists, semExists, msgqExists, msgq, pipe, pipeW,
                   pipeR, hdl, hpc, lhpc, thread_running, loc, sens, actv,
                   logfile, ghostVars, menuCount, now>>

\* main_sensor.c:116, main_actuator.c:110  read_control_state: sem_lock
R_Lock(p) ==
    /\ Alive(p) /\ pc[p] = "r_lock"
    /\ SemLock(p)
    /\ Goto(p, "r_cs")
    /\ NoTouch
    /\ UNCHANGED <<auxVars, shm, ipcVars, msgq, pipe, pipeW, pipeR, status, hdl, hpc,
                   lhpc, thread_running, loc, sens, actv, logfile, ghostVars,
                   menuCount, now>>

\* main_sensor.c:117-128, 224-232  copy heater_on and fan_on, unlock,
\* update_physics; every second pass sends, the other one only counts
\* (loop_count is kept modulo 2).
N_ReadCS ==
    /\ Alive("sensor") /\ pc["sensor"] = "r_cs"
    /\ sens' = [heater_state |-> shm.heater_on, fan_state |-> shm.fan_on,
                loop_count |-> 0]
    /\ Touch("sensor")
    /\ SemUnlock("sensor")
    /\ Goto("sensor", IF sens.loop_count = 0 THEN "n_send" ELSE "k_lock")
    /\ UNCHANGED <<auxVars, shm, ipcVars, msgq, pipe, pipeW, pipeR, status, hdl, hpc,
                   lhpc, thread_running, loc, actv, logfile, ghostVars,
                   menuCount, now>>

\* main_sensor.c:69-108  update_physics leaves a float temperature and
\* humidity that depend on rand(); any value of the input sets can result.
update_physics == Readings

\* main_sensor.c:135-152, 231-232  msgsnd of the current values; a failure
\* (queue removed) is only printed.
N_Send ==
    /\ Alive("sensor") /\ pc["sensor"] = "n_send"
    /\ Len(sent) < MaxSends
    /\ \E r \in update_physics :
         LET m == [temperature |-> r[1], humidity |-> r[2], timestamp |-> now] IN
         IF msgqExists
           THEN msgq' = Append(msgq, m) /\ sent' = Append(sent, m)
           ELSE UNCHANGED <<msgq, sent>>
    /\ sens' = [sens EXCEPT !.loop_count = 1]
    /\ Goto("sensor", "k_lock")
    /\ NoTouch
    /\ UNCHANGED <<auxVars, shm, ipcVars, sem, holder, pipe, pipeW, pipeR, status, hdl,
                   hpc, lhpc, thread_running, loc, actv, logfile, processed,
                   versions, menuCount, now>>

\* main_actuator.c:111-116  copy the five fields, unlock
T_ReadCS ==
    /\ Alive("actuator") /\ pc["actuator"] = "r_cs"
    /\ actv' = Tuple5(shm)
    /\ Touch("actuator")
    /\ SemUnlock("actuator")
    /\ Goto("actuator", "d_lock")
    /\ UNCHANGED <<auxVars, shm, ipcVars, msgq, pipe, pipeW, pipeR, status, hdl, hpc,
                   lhpc, thread_running, loc, sens, logfile, ghostVars,
                   menuCount, now>>

\* main_actuator.c:68  display_dashboard: sem_lock
T_DashLock ==
    /\ Alive("actuator") /\ pc["actuator"] = "d_lock"
    /\ SemLock("actuator")
    /\ Goto("actuator", "d_cs")
    /\ NoTouch
    /\ UNCHANGED <<auxVars, shm, ipcVars, msgq, pipe, pipeW, pipeR, status, hdl, hpc,
                   lhpc, thread_running, loc, sens, actv, logfile, ghostVars,
                   menuCount, now>>

\* main_actuator.c:69-102, 174  read both thresholds, unlock, draw, sleep
T_DashCS ==
    /\ Alive("actuator") /\ pc["actuator"] = "d_cs"
    /\ Touch("actuator")
    /\ SemUnlock("actuator")
    /\ Goto("actuator", "k_lock")
    /\ UNCHANGED <<auxVars, shm, ipcVars, msgq, pipe, pipeW, pipeR, status, hdl, hpc,
                   lhpc, thread_running, loc, sens, actv, logfile, ghostVars,
                   menuCount, now>>

\* main_monitor.c:64-68, 96-101  scanf of the menu choice: 1, 2 or 3 start a
\* critical section, 4 calls cleanup_and_exit.
M_Menu(c) ==
    /\ Alive("monitor") /\ pc["monitor"] = "menu"
    /\ NoTouch
    /\ IF c = 4
         THEN /\ cleanup_and_exit("monitor")
              /\ UNCHANGED menuCount
         ELSE /\ menuCount < MaxMenu
              /\ menuCount' = menuCount + 1
              /\ Goto("monitor", CASE c = 1 -> "m1_lock"
                                   [] c = 2 -> "m2_lock"
                                   [] OTHER -> "m3_lock")
              /\ UNCHANGED <<status, att>>
    /\ UNCHANGED <<auxVars, shm, shmExists, semExists, msgqExists, sem, holder, msgq,
                   pipe, pipeW, pipeR, hdl, hpc, lhpc, thread_running, loc,
                   sens, actv, logfile, ghostVars, now>>

\* main_monitor.c:73, 83, 90
M_Lock ==
    /\ Alive("monitor") /\ pc["monitor"] \in {"m1_lock", "m2_lock", "m3_lock"}
    /\ SemLock("monitor")
    /\ Goto("monitor", CASE pc["monitor"] = "m1_lock" -> "m1_cs"
                         [] pc["monitor"] = "m2_lock" -> "m2_cs"
                         [] OTHER -> "m3_cs")
    /\ NoTouch
    /\ UNCHANGED <<auxVars, shm, ipcVars, msgq, pipe, pipeW, pipeR, status, hdl, hpc,
                   lhpc, thread_running, loc, sens, actv, logfile, ghostVars,
                   menuCount, now>>

\* main_monitor.c:72-75  the value typed before sem_lock is stored
M_SetTemp ==
    /\ Alive("monitor") /\ pc["monitor"] = "m1_cs"
    /\ \E v \in NewTempThresh : shm' = [shm EXCEPT !.temp_threshold = v]
    /\ Touch("monitor")
    /\ SemUnlock("monitor")
    /\ Goto("monitor", "menu")
    /\ UNCHANGED <<auxVars, ipcVars, msgq, pipe, pipeW, pipeR, status, hdl, hpc, lhpc,
                   thread_running, loc, sens, actv, logfile, ghostVars,
                   menuCount, now>>

\* main_monitor.c:82-85
M_SetHum ==
    /\ Alive("monitor") /\ pc["monitor"] = "m2_cs"
    /\ \E v \in NewHumThresh : shm' = [shm EXCEPT !.humidity_threshold = v]
    /\ Touch("monitor")
    /\ SemUnlock("monitor")
    /\ Goto("monitor", "menu")
    /\ UNCHANGED <<auxVars, ipcVars, msgq, pipe, pipeW, pipeR, status, hdl, hpc, lhpc,
                   thread_running, loc, sens, actv, logfile, ghostVars,
                   menuCount, now>>

\* main_monitor.c:90-95  printf of both thresholds inside the section
M_Show ==
    /\ Alive("monitor") /\ pc["monitor"] = "m3_cs"
    /\ Touch("monitor")
    /\ SemUnlock("monitor")
    /\ Goto("monitor", "menu")
    /\ UNCHANGED <<auxVars, shm, ipcVars, msgq, pipe, pipeW, pipeR, status, hdl, hpc,
                   lhpc, thread_running, loc, sens, actv, logfile, ghostVars,
                   menuCount, now>>

SensorNext == K_Lock("sensor") \/ K_CS("sensor") \/ R_Lock("sensor")
              \/ N_ReadCS \/ N_Send
ActuatorNext == K_Lock("actuator") \/ K_CS("actuator") \/ R_Lock("actuator")
                \/ T_ReadCS \/ T_DashLock \/ T_DashCS
MonitorNext == (\E c \in 1..4 : M_Menu(c)) \/ M_Lock \/ M_SetTemp \/ M_SetHum
               \/ M_Show
ClientNext == (\E p \in Clients : ClientStart(p) \/ SigClient(p))
              \/ SensorNext \/ ActuatorNext \/ MonitorNext

StartupNext == S_Create \/ S_SetVal \/ S_InitLock \/ S_InitCS \/ S_Print
               \/ S_Fork \/ S_Thread
PollNext == C_Poll \/ C_Sleep
ProcessNext == C_Lock1 \/ C_Read \/ C_Lock2 \/ C_Write1 \/ C_Write2 \/ C_Log
MainNext == StartupNext \/ PollNext \/ ProcessNext
LoggerRunNext == L_Start \/ L_Read
LoggerCleanupNext == LH_Join \/ LH_Lock \/ LH_CS \/ LH_Rm \/ LH_RmSemExit
LoggerSigNext == SigLogger \/ LoggerCleanupNext
SensorRun == ClientStart("sensor") \/ SensorNext
ActuatorRun == ClientStart("actuator") \/ ActuatorNext
MonitorRun == ClientStart("monitor") \/ MonitorNext

\* The server with a termination signal delivered to either thread, its
\* logger child (the log file opens), and the sensor.
Next == MainNext \/ AlertNext \/ (\E t \in {"main", "alert"} : SigServer(t))
        \/ HandlerNext \/ S_Segv \/ LoggerRunNext \/ L_End
        \/ SensorRun \/ SigClient("sensor")
Spec == Init /\ [][Next]_vars

\* No signal reaches the server: the control loop with the sensor and the
\* operator's monitor.
NextCtl == MainNext \/ AlertNext \/ LoggerRunNext \/ L_OpenFail
           \/ SensorRun \/ SigClient("sensor")
           \/ MonitorRun \/ SigClient("monitor")
SpecCtl == Init /\ [][NextCtl]_vars

\* The control loop with the logger, the sensor and the monitor console; no
\* signal is delivered.
NextDecide == MainNext \/ LoggerRunNext \/ SensorRun \/ MonitorRun
SpecDecide == Init /\ [][NextDecide]_vars

\* The alert thread beside the control loop, the sensor and an operator who
\* changes thresholds at the monitor console; the logger child has not been
\* scheduled yet and no signal is delivered.
NextAlert == MainNext \/ AlertNext \/ SensorRun
             \/ ClientStart("monitor") \/ M_Menu(1) \/ M_Menu(2) \/ M_Lock
             \/ M_SetTemp \/ M_SetHum
SpecAlert == Init /\ [][NextAlert]_vars

\* A termination signal reaches the logger child (kill of the child, or of
\* the process group) while the server goes on.
NextLogSig == MainNext \/ LoggerRunNext \/ LoggerSigNext \/ SensorRun
SpecLogSig == Init /\ [][NextLogSig]_vars

\* The termination signal is handled by the alert thread while the main
\* thread goes on; the actuator reads the control state.
NextReaders == MainNext \/ SigServer("alert") \/ HandlerNext \/ S_Segv
               \/ LoggerRunNext \/ L_End \/ SensorRun \/ ActuatorRun
SpecReaders == Init /\ [][NextReaders]_vars

\* One termination signal is sent to the server's process group.
NextGroup == StartupNext \/ PollNext \/ AlertNext
             \/ (\E t \in {"main", "alert"} : SigGroup(t)) \/ HandlerNext
             \/ L_Start \/ LoggerCleanupNext
SpecGroup == Init /\ [][NextGroup]_vars

\* A second termination signal arrives while the first is being handled on
\* the main thread.
NextTwice == StartupNext \/ PollNext \/ AlertNext \/ SigServer("main")
             \/ SigNested \/ HandlerNext \/ L_Start \/ L_End
SpecTwice == Init /\ [][NextTwice]_vars

\* Shutdown seen by the loops; no reading is sent.
NextStop == StartupNext \/ PollNext \/ AlertNext
            \/ (\E t \in {"main", "alert"} : SigServer(t)) \/ HandlerNext
            \/ L_Start \/ L_End
            \/ ActuatorRun \/ SigClient("actuator")
            \/ MonitorRun \/ SigClient("monitor")
SpecStop == Init /\ [][NextStop]_vars
\* main_sensor.c:142, main_server.c:372  time(NULL): the clock of the machine
\* moves on by one second.
Tick ==
    /\ now < MaxTime
    /\ now' = now + 1
    /\ UNCHANGED <<shm, shmExists, att, sem, semExists, holder, msgq,
                   msgqExists, pipe, pipeW, pipeR, pc, status, hdl, hpc, lhpc,
                   thread_running, loc, sens, actv, logfile, sent, processed,
                   versions, bare, menuCount, stop, aloc, alerts, written>>

\* The control loop with the logger and the sensor while time passes; no
\* signal is delivered.
NextTime == MainNext \/ LoggerRunNext \/ SensorRun \/ Tick
SpecTime == Init /\ [][NextTime]_vars

\* The whole life of SharedData: initialisation, controller updates for the
\* sensor's readings, a temperature threshold written by the operator, and the
\* shutdown on a termination signal handled on the main thread.  The alert
\* thread is scheduled only for its loop test and the logger child only to
\* open the log and to end on end-of-file.
NextLed == MainNext \/ A_Check \/ L_Start \/ L_End \/ SensorRun
           \/ ClientStart("monitor") \/ M_Menu(1) \/ M_Lock \/ M_SetTemp
           \/ SigServer("main") \/ HandlerNext
SpecLed == Init /\ [][NextLed]_vars

\* Startup of every process: the server's calls may fail, the clients are
\* started before, during or after the server's run; the server is stopped
\* by a signal on its main thread.
NextStart == StartupNext \/ (\E k \in DOMAIN StartupCalls : S_CreateFail(k))
             \/ PollNext \/ AlertNext \/ SigServer("main") \/ HandlerNext
             \/ L_Start \/ L_End
             \/ (\E p \in Clients : ClientStart(p)) \/ SensorNext
SpecStart == Init /\ [][NextStart]_vars

\* The control loop under fair scheduling, with no signal: every thread that
\* can run eventually runs, a waiter on the semaphore is eventually served
\* (the kernel queues pending semop calls), the logger keeps reading.
NextFair == MainNext \/ AlertNext \/ LoggerRunNext \/ L_OpenFail \/ SensorRun
Fairness ==
    /\ WF_vars(StartupNext) /\ WF_vars(PollNext) /\ WF_vars(ProcessNext)
    /\ SF_vars(S_InitLock) /\ SF_vars(C_Lock1) /\ SF_vars(C_Lock2)
    /\ WF_vars(A_CS) /\ WF_vars(K_CS("sensor")) /\ WF_vars(N_ReadCS)
    /\ WF_vars(L_Start) /\ WF_vars(L_Read)
SpecFair == Init /\ [][NextFair]_vars /\ Fairness

\* ======================================================================
\* Properties
\* ======================================================================
IsPrefix(a, b) == Len(a) <= Len(b) /\ \A i \in 1..Len(a) : a[i] = b[i]

\* C1: after the controller has processed a reading r with the thresholds
\* (T, H) it read in that cycle, the heater flag it wrote is 1 exactly when
\* r.temperature < T and the fan flag is 1 exactly when r.humidity > H;
\* equality gives OFF for both.
C1_StrictDecision ==
    pc["main"] = "c_log" =>
        /\ shm.heater_on \in {0, 1} /\ shm.fan_on \in {0, 1}
        /\ (shm.heater_on = 1) <=> (loc.msg.temperature < loc.temp_thresh * Scale)
        /\ (shm.fan_on = 1) <=> (loc.msg.humidity > loc.hum_thresh * Scale)

\* A reading exactly at both thresholds has been processed: both devices off.
C1_Witness ==
    /\ pc["main"] = "c_log"
    /\ loc.msg.temperature = loc.temp_thresh * Scale
    /\ loc.msg.humidity = loc.hum_thresh * Scale
    /\ shm.heater_on = 0 /\ shm.fan_on = 0

\* C2: every 5-tuple read_control_state has copied into the actuator is the
\* tuple that the initialisation or one single complete controller update
\* left in the segment.
C2_NoTornRead ==
    actv # <<>> => actv \in versions

\* C3: the readings the controller has taken from the queue are, in order,
\* the first readings the sensor sent, one for one; while the queue exists
\* the readings sent are exactly those taken followed by those still queued.
C3_FIFO ==
    /\ IsPrefix(processed, sent)
    /\ msgqExists => sent = processed \o msgq

\* Two different readings were sent and both have been processed.
C3_Witness ==
    /\ Len(processed) = 2
    /\ processed[1] # processed[2]
    /\ processed = sent

\* C4: once signal_handler runs on the main thread (alert thread created, no
\* terminated process left holding the semaphore), the server has exited with
\* status 0 or the system can still take a step: the stop path never ends in
\* a state where nothing can move.
C4_ShutdownCompletes ==
    (/\ hdl = "main"
     /\ pc["alert"] # "none"
     /\ \A t \in holder : Alive(ProcOf(t))) =>
        (status["server"] = "exit0" \/ (Alive("server") /\ ENABLED Next))

\* C5: when the logger has exited with status 0, no LogMessage written to
\* the pipe is left unread.
C5_LoggerDrains ==
    status["logger"] = "exit0" => pipe = <<>>

\* C6: whenever the controller is at the log hand-off, the write can return.
C6_HandOffNeverBlocks ==
    (MainRuns /\ pc["main"] = "c_log") => ENABLED C_Log

\* C7: under fair scheduling the controller completes control cycles for as
\* long as the server lives, with or without readings in the queue.
C7_CyclesForever ==
    <>(pc["main"] = "poll") => ([]<>(pc["main"] = "sleep") \/ <>(~Alive("server")))

\* The controller is at the end of a cycle whose poll found the queue empty
\* after every reading of the run has been processed.
C7_Witness ==
    /\ pc["main"] = "sleep"
    /\ Len(sent) = MaxSends /\ processed = sent
    /\ msgq = <<>>

\* C8: a thread that holds the semaphore belongs to a process that is still
\* running: no process exits between sem_lock and sem_unlock.
C8_ReleasedOnExit ==
    \A t \in holder : Alive(ProcOf(t))

\* C9: no step reads or writes a SharedData field without holding the
\* semaphore.
C9_AccessUnderLock == ~bare

\* C10: once the stop path of a fully started server has set system_running
\* to 0, a loop that starts its next iteration terminates instead of running
\* the iteration.
StopRequested ==
    /\ versions # {}
    /\ pc["alert"] # "none"
    /\ shm.system_running = 0
LeavesLoopAt(t, head) ==
    (pc[t] = head /\ pc'[t] # head) => pc'[t] = "done"
C10_LoopsObserveStop ==
    [][StopRequested =>
         /\ LeavesLoopAt("main", "poll")
         /\ LeavesLoopAt("alert", "a_check")
         /\ LeavesLoopAt("sensor", "k_cs")
         /\ LeavesLoopAt("actuator", "k_cs")
         /\ LeavesLoopAt("monitor", "menu")]_vars

\* C11: the alert thread leaves its loop only when system_running is 0, and
\* once system_running is 0 a tick that starts at the head of the loop leaves
\* it.
C11_AlertExitsOnRunningFalse ==
    [][(pc["alert"] = "a_check" /\ pc'["alert"] # "a_check") =>
           ((pc'["alert"] = "done") <=> (shm.system_running = 0))]_vars

\* C12: however often cleanup_resources is called in a fully started server,
\* it releases the pipe write end, the attachment, the queue, the segment and
\* the semaphore at most once each.
C12_StopIdempotent ==
    pc["alert"] # "none" =>
        \A r \in {"pipe", "shmdt", "msgq", "shm", "sem"} : stop[r] <= 1

\* C13: after one termination signal to the process group, signal_handler
\* (whose first statement calls cleanup_resources) has not been entered both
\* in the server and in the logger child.
C13_StopPathOnce ==
    ~(hdl # "none" /\ lhpc # "none")

\* C14: at the end of a tick of the alert thread, for the four values it
\* read in that tick's critical section, the high-temperature alert was
\* printed exactly when temp > temp_thresh + 5, the low-temperature alert
\* exactly when temp < 20, and the high-humidity alert exactly when
\* hum > hum_thresh + 10.
C14_AlertConditions ==
    (pc["alert"] = "a_check" /\ aloc # <<>>) =>
        /\ ("high_temp" \in alerts) <=>
               (aloc.temp > (aloc.temp_thresh + 5) * Scale)
        /\ ("low_temp" \in alerts) <=> (aloc.temp < 20 * Scale)
        /\ ("high_humidity" \in alerts) <=>
               (aloc.hum > (aloc.hum_thresh + 10) * Scale)

\* A tick that read 19.5 and 80.5 under the default thresholds printed the
\* low-temperature and the high-humidity alert and not the high-temperature
\* one.
C14_Witness ==
    /\ pc["alert"] = "a_check" /\ aloc # <<>>
    /\ aloc.temp < 20 * Scale
    /\ aloc.hum > (aloc.hum_thresh + 10) * Scale
    /\ alerts = {"low_temp", "high_humidity"}

\* C15: the readings the controller has taken are the readings sent, each
\* once and in order, and when a fully started server has exited through the
\* stop path (signal handled on its main thread) every reading that msgsnd
\* accepted has been taken.
C15_ConsumedExactlyOnce ==
    /\ IsPrefix(processed, sent)
    /\ (status["server"] = "exit0" /\ hdl = "main" /\ pc["alert"] # "none")
           => processed = sent

\* C16: the record lines of the log are, one for one and in order, the
\* LogMessages the controller wrote to the pipe, less those still in the
\* pipe: every message taken from the pipe gave exactly one line, with its
\* values.
IsRecordLine(x) == x.kind = "record"
C17_SessionMarkers ==
    /\ logfile # <<>> => logfile[1].kind = "start"
    /\ (/\ status["server"] = "exit0" /\ hdl = "main" /\ pc["alert"] # "none"
        /\ status["logger"] = "exit0" /\ logfile # <<>>)
           => logfile[Len(logfile)].kind = "end"

\* C18: write ownership of SharedState.  No step of the sensor, the actuator,
\* the alert thread or the logger process changes any field; a step of the
\* monitor console changes at most temp_threshold and humidity_threshold; a
\* step of the controller's cycle changes at most heater_on, fan_on, led_on,
\* current_temp and current_humidity; after initialisation system_running
\* changes only in a step of the server's cleanup_resources, from 1 to 0.
C18_WriteOwnership ==
    [][/\ (SensorNext \/ ActuatorNext \/ AlertNext \/ LoggerNext) => shm' = shm
       /\ MonitorNext =>
              \A f \in DOMAIN shm \ {"temp_threshold", "humidity_threshold"} :
                  shm'[f] = shm[f]
       /\ (PollNext \/ ProcessNext) =>
              \A f \in {"temp_threshold", "humidity_threshold",
                        "system_running"} : shm'[f] = shm[f]
       /\ (shm'.system_running # shm.system_running /\ ~S_InitCS) =>
              /\ HandlerNext
              /\ shm.system_running = 1 /\ shm'.system_running = 0]_vars

\* C19: a client process that has attached and is inside a critical section
\* on SharedState (it holds the semaphore and reads or writes the record)
\* finds a record that main has already initialised with the defaults.
C19_DefaultsBeforeAttach ==
    \A p \in Clients :
        (p \in att /\ p \in holder /\ Alive(p)) =>
            pc["main"] \notin {"s_create", "s_setval", "s_init_lock", "s_init_cs"}

\* C20: when the logger process has failed (it could not open the log file
\* and exited with status 1), the server is not terminated: it is still
\* running.
C20_LoggerFailureContained ==
    status["logger"] = "exit1" => Alive("server")

\* C21: a process whose startup cannot obtain the queue, the segment, the
\* semaphore or the attachment exits with status 1 at that point and never
\* enters its main loop; a process that goes on has obtained all of them.
C21_StartupFailureExits ==
    [][/\ \A p \in Clients :
            (status[p] = "none" /\ status'[p] # "none") =>
                IF (p = "sensor" => msgqExists) /\ shmExists /\ semExists
                  THEN status'[p] = "running" /\ p \in att'
                  ELSE status'[p] = "exit1" /\ pc'[p] = "done" /\ p \notin att'
       /\ (/\ pc["main"] = "s_create" /\ hdl = "none" /\ hdl' = "none"
           /\ (pc'["main"] # "s_create" \/ ~Alive("server")')) =>
              IF msgqExists' /\ shmExists' /\ semExists' /\ "server" \in att'
                THEN Alive("server")' /\ pc'["main"] = "s_setval"
                ELSE status'["server"] = "exit1" /\ pc'["main"] = "s_create"
       /\ \A p \in Procs : status[p] = "exit1" => (status'[p] = "exit1" /\
              \A t \in Threads : ProcOf(t) = p => pc'[t] = pc[t])]_vars

\* The server failed at semget (queue and segment exist, no semaphore) and
\* every client started afterwards has exited with status 1.
C21_Witness ==
    /\ status["server"] = "exit1" /\ pc["main"] = "s_create"
    /\ msgqExists /\ shmExists /\ ~semExists
    /\ \A p \in Clients : status[p] = "exit1" /\ pc[p] = "done"

\* C22: a controller cycle that begins (the main thread is at the head of its
\* loop) after system_running has been set to 0 takes no reading from the
\* queue, so that it has nothing to write to SharedState or to the pipe.
C22_NoProcessingAfterStop ==
    [][(StopRequested /\ pc["main"] = "poll") => processed' = processed]_vars

\* C23: once the shutdown path of a fully started server has begun to release
\* the segment, the queue or the semaphore (shmdt or an IPC_RMID has been
\* issued), system_running is 0, the alert thread has exited, the pipe's
\* write end is closed and the logger has drained the pipe and exited.
ReleaseBegun == stop.shmdt + stop.msgq + stop.shm + stop.sem > 0
C23_ReleaseAfterDrain ==
    (pc["alert"] # "none" /\ ReleaseBegun) =>
        /\ shm.system_running = 0
        /\ pc["alert"] = "done"
        /\ ~pipeW
        /\ status["logger"] = "exit0" /\ pipe = <<>>

\* C24: in the state the controller's update leaves behind (the step that
\* completes the device-state write and releases the semaphore), the flags
\* agree with the thresholds stored in SharedState at that moment.
C24_FlagsMatchStoredThresholds ==
    [][(pc["main"] = "c_write2" /\ pc'["main"] = "c_log") =>
           /\ (shm'.heater_on = 1) <=>
                  (shm'.current_temp < shm'.temp_threshold * Scale)
           /\ (shm'.fan_on = 1) <=>
                  (shm'.current_humidity > shm'.humidity_threshold * Scale)]_vars

\* A step that calls sem_lock or sem_unlock, or reads or writes a SharedData
\* field (every critical section of the four programs).
SharedAccess ==
    \/ \E p \in {"sensor", "actuator"} : K_Lock(p) \/ K_CS(p) \/ R_Lock(p)
    \/ N_ReadCS \/ T_ReadCS \/ T_DashLock \/ T_DashCS
    \/ M_Lock \/ M_SetTemp \/ M_SetHum \/ M_Show
    \/ C_Lock1 \/ C_Read \/ C_Lock2 \/ C_Write1 \/ C_Write2
    \/ A_Lock \/ A_CS

\* C25: once the shutdown path of a fully started server, run on the main
\* thread, has detached and removed the segment and removed the semaphore, no
\* process or thread calls sem_lock or sem_unlock or accesses a SharedData
\* field.
C25_NoAccessAfterRelease ==
    [][(hdl = "main" /\ pc["alert"] # "none" /\ stop.sem > 0) =>
           ~SharedAccess]_vars

\* The positions between a sem_lock and its sem_unlock.
CsPositions == {"s_init_cs", "c_read", "c_write1", "c_write2", "a_cs", "k_cs",
                "r_cs", "d_cs", "m1_cs", "m2_cs", "m3_cs"}
InCS(t) == Alive(ProcOf(t)) /\ pc[t] \in CsPositions
InHandlerCS == Alive("server") /\ hpc = "h_cs"

\* C26: the semaphore value is 0 or 1, at most one thread is between sem_lock
\* and sem_unlock, and a thread that is there has had its P operation
\* succeed (it holds the semaphore); a termination signal, if any, reached
\* the main thread of the fully started server.
C26_MutualExclusion ==
    (hdl # "none" => (hdl = "main" /\ pc["alert"] # "none")) =>
        /\ sem \in {0, 1}
        /\ Cardinality({t \in Threads : InCS(t)})
               + (IF InHandlerCS THEN 1 ELSE 0) <= 1
        /\ \A t \in Threads : InCS(t) => t \in holder
        /\ InHandlerCS => hdl \in holder

\* C27: a step that writes to the terminal, sleeps, or operates on the pipe
\* or the queue is taken by a thread that does not hold the semaphore.
C27_NoIoInCriticalSection ==
    [][/\ (S_Print \/ C_Poll \/ C_Log \/ C_Sleep) => "main" \notin holder
       /\ A_Alert => "alert" \notin holder
       /\ N_Send => "sensor" \notin holder
       /\ (M_Show \/ \E c \in 1..4 : M_Menu(c)) => "monitor" \notin holder]_vars

\* C28: whenever the controller is between two cycles, and when a fully
\* started server has exited after a termination signal on its main thread,
\* every reading taken from the queue has exactly one LogMessage written to
\* the pipe, and the last LogMessage carries the temperature, the humidity
\* and the heater and fan values of the last update of SharedState.
BetweenCycles == Alive("server") /\ hdl = "none" /\ pc["main"] \in {"poll", "sleep"}
StoppedOnMain ==
    status["server"] = "exit0" /\ hdl = "main" /\ pc["alert"] # "none"
C28_OneRecordPerReading ==
    /\ BetweenCycles => Len(written) = Len(processed)
    /\ ((BetweenCycles \/ StoppedOnMain) /\ Cardinality(versions) > 1) =>
           /\ written # <<>>
           /\ written[Len(written)].temperature = shm.current_temp
           /\ written[Len(written)].humidity = shm.current_humidity
           /\ written[Len(written)].heater_on = shm.heater_on
           /\ written[Len(written)].fan_on = shm.fan_on

\* C29: every LogMessage written to the pipe carries the timestamp of the
\* reading it was derived from (the i-th message written belongs to the i-th
\* reading taken from the queue).
C29_TimestampOfReading ==
    \A i \in 1..Len(written) :
        i <= Len(processed) => written[i].timestamp = processed[i].timestamp

\* C30: a controller cycle whose poll finds the queue empty goes to its sleep
\* and back to the next poll with every SharedData field, the pipe and the
\* history of written LogMessages unchanged; a step of the monitor console
\* leaves heater_on and fan_on as they are.
C30_EmptyCycleChangesNothing ==
    [][/\ (/\ pc["main"] = "poll" /\ pc'["main"] # "poll"
           /\ (~msgqExists \/ msgq = <<>>)) =>
              /\ pc'["main"] = "sleep"
              /\ shm' = shm /\ pipe' = pipe /\ written' = written
              /\ processed' = processed
       /\ (pc["main"] = "sleep" /\ pc'["main"] # "sleep") =>
              /\ pc'["main"] = "poll"
              /\ shm' = shm /\ pipe' = pipe /\ written' = written
       /\ MonitorNext =>
              /\ shm'.heater_on = shm.heater_on
              /\ shm'.fan_on = shm.fan_on]_vars

\* The controller sleeps at the end of a cycle that found no reading (none
\* has been taken yet) after the operator has changed the temperature
\* threshold: the device flags are still those of the initialisation.
C30_Witness ==
    /\ pc["main"] = "sleep" /\ processed = <<>>
    /\ shm.temp_threshold \in NewTempThresh
    /\ shm.heater_on = 0 /\ shm.fan_on = 0
    /\ written = <<>>

\* C31: a poll of the controller on a removed queue is a cycle without a
\* reading: the server lives on, the controller goes to its sleep and from
\* there to the next poll, and SharedData, the readings taken and the
\* LogMessages written stay as they were.
C31_RemovedQueueIsNoReading ==
    [][(/\ ~msgqExists /\ Alive("server") /\ hdl = "none" /\ hdl' = "none"
        /\ pc["main"] \in {"poll", "sleep"}
        /\ (pc'["main"] # pc["main"] \/ ~Alive("server")')) =>
           /\ Alive("server")'
           /\ pc'["main"] = (IF pc["main"] = "poll" THEN "sleep" ELSE "poll")
           /\ shm' = shm /\ processed' = processed /\ written' = written]_vars

\* The logger child has removed the queue with a reading still in it; the
\* server is alive and its controller sleeps at the end of a cycle.
C31_Witness ==
    /\ ~msgqExists /\ ~semExists /\ status["logger"] = "exit0"
    /\ Alive("server") /\ hdl = "none" /\ pc["main"] = "sleep"
    /\ Len(sent) > Len(processed)

\* C32: once main has completed the initialisation of SharedData, led_on is
\* 1 in every state, through controller updates, console writes and the
\* steps of the shutdown.
C32_LedAlwaysOn ==
    pc["main"] \notin {"s_create", "s_setval", "s_init_lock", "s_init_cs"}
        => shm.led_on = 1

\* The server has exited after a shutdown on its main thread; before that the
\* controller processed a reading and the operator changed a threshold.
C32_Witness ==
    /\ status["server"] = "exit0" /\ hdl = "main" /\ stop.shm = 1
    /\ processed # <<>> /\ Cardinality(versions) > 1
    /\ shm.temp_threshold \in NewTempThresh
    /\ shm.system_running = 0 /\ shm.led_on = 1

\* C33: when a creation call of the server's startup fails after earlier
\* ones succeeded and the server exits with status 1, no message queue,
\* shared memory segment, semaphore or logger child is left behind.
C33_FailedStartReleasesAll ==
    status["server"] = "exit1" =>
        /\ ~msgqExists /\ ~shmExists /\ ~semExists
        /\ ~Alive("logger")
====
